---- MODULE Spec2Model ----
(***************************************************************************)
(* XenianBot command plugins: the danbooru search command with its media   *)
(* group batch loop (src/xenian_bot/commands/danbooru.py) and the          *)
(* translate command (src/xenian/bot/commands/translate.py).               *)
(*                                                                         *)
(* Texts are sequences of lexemes.  A lexeme is a short string standing    *)
(* for itself ("page", "=", " ", "1", "a", ...); the real text is the      *)
(* concatenation of the lexemes.                                           *)
(***************************************************************************)
EXTENDS Integers, Sequences, FiniteSets, TLC

\* ------------------------------------------------------------------ bounds
\* Number of posts the image board returns for one query.
MaxPosts == 23
\* Number of those posts that carry no http(s) url.
MaxDropped == 1
\* The platform rejects a media group only while at most this many items
\* are pending (every order of the surviving items is explored).
MaxRetryLen == 3
\* Length up to which every mix of post kinds is explored.
MaxMixed == 3

\* --------------------------------------------------------------- sequences
Range(s) == {s[i] : i \in 1..Len(s)}

Min(a, b) == IF a < b THEN a ELSE b

\* s[:n]
Take(s, n) == SubSeq(s, 1, Min(n, Len(s)))

\* s after del s[:n]
Drop(s, n) == SubSeq(s, Min(n, Len(s)) + 1, Len(s))

RECURSIVE Perms(_)
Perms(S) ==
    IF S = {} THEN {<<>>}
    ELSE UNION {{<<x>> \o p : p \in Perms(S \ {x})} : x \in S}

IsAscending(s) == \A i \in 1..Len(s) : \A j \in 1..Len(s) : i < j => s[i] < s[j]

\* ------------------------------------------------------------------- state
VARIABLES
    pc,          \* position of the running handler
    query,       \* the query dict of the danbooru commands
    replies,     \* update.message.reply_text calls, in order
    backend,     \* client.post_list calls, in order (the query passed)
    posts,       \* what client.post_list returned
    media_list,  \* pending media items; an item is the index of its post
    errors,      \* the failure counter
    error_list,  \* items found unreachable in the running probe round
    idx,         \* position of the probe loop in media_list[:10]
    batch,       \* the items of the latest send attempt
    sendKind,    \* "none" | "group" | "photo": the latest send attempt
    pendingAtSend, \* len(media_list) when the latest send was attempted
    sentLog,     \* items sent successfully, in sending order
    groups,      \* sizes of the successful send_media_group calls
    photos,      \* number of send_photo attempts
    removed,     \* items removed from media_list as failed
    probed,      \* items HEAD-probed in the running/latest probe round
    badStatus,   \* items whose HEAD status was outside [200,399]
    survivors,   \* items of the latest rejected batch that stayed pending
    anyFailure,  \* some send was rejected so far
    cmd,         \* the command handler that ran: "none" | "danbooru_tags" | "latest"
    args,        \* the args the framework passed to that handler
    exIn,        \* arguments of an extract_option_from_string call
    exOut,       \* what that call returned or raised
    trIn,        \* the message a translate invocation handles
    trCalls      \* translator.translate calls, in order

loopVars == <<posts, media_list, errors, error_list, idx, batch, sendKind,
              pendingAtSend, sentLog, groups, photos, removed, probed,
              badStatus, survivors, anyFailure>>

textVars == <<exIn, exOut>>

trVars == <<trIn, trCalls>>

cmdVars == <<cmd, args>>

vars == <<pc, query, replies, backend, loopVars, cmdVars, textVars, trVars>>

\* ------------------------------------------------- post_list_send_media_group
\* The batch size literal of media_list[:10] and del media_list[:10].
GroupSize == 10

\* HTTP status codes a HEAD probe answers with.
StatusCodes == {199, 200, 399, 400}

\* line 192: request.status_code > 399 or request.status_code < 200
ProbeFailed(status) == status > 399 \/ status < 200

\* A post is "large" (has large_file_url), "source" (no large_file_url, an
\* http source) or "nourl" (no large_file_url, source empty or not http).
PostKinds == {"large", "source", "nourl"}

\* lines 168-170: the post yields an image url starting with 'http'
HasHttpUrl(post) == post \in {"large", "source"}

RECURSIVE SubsetsUpTo(_, _)
SubsetsUpTo(S, k) ==
    IF k = 0 THEN {{}}
    ELSE SubsetsUpTo(S, k - 1) \cup
         {T \cup {x} : T \in SubsetsUpTo(S, k - 1), x \in S}

\* The post lists the board answers with: every list of up to MaxMixed
\* posts, and the lists of up to MaxPosts posts with large_file_url of
\* which at most MaxDropped have no url.
PostInputs ==
    UNION {[1..n -> PostKinds] : n \in 0..MaxMixed}
    \cup
    UNION {{[i \in 1..n |-> IF i \in D THEN "nourl" ELSE "large"] :
                D \in SubsetsUpTo(1..n, MaxDropped)} : n \in 0..MaxPosts}

\* lines 165-175: the build loop; the items collected, in post order
RECURSIVE Collect(_, _)
Collect(p, i) ==
    IF i > Len(p) THEN <<>>
    ELSE IF HasHttpUrl(p[i]) THEN <<i>> \o Collect(p, i + 1)
    ELSE Collect(p, i + 1)

\* BuildErrors without the errors += 1 of the skipped posts
BuildErrorsUncounted(p) == 0

\* lines 165-172: errors after the build loop
BuildErrors(p) == Cardinality({i \in 1..Len(p) : ~HasHttpUrl(p[i])})

\* lines 155-156
ClampLimit(q) == IF q.limit > 100 THEN [q EXCEPT !.limit = 100] ELSE q

\* CurrentBatch with a slice one item too long
CurrentBatchTooLong(ml) == Take(ml, GroupSize + 1)

\* line 183: media_list[:10]
CurrentBatch(ml) == Take(ml, GroupSize)

\* line 186: del media_list[:10]
AfterDelete(ml) == Drop(ml, GroupSize)

\* line 195: list(set(media_list) - set(error_list)); the iteration order
\* of a set of objects hashed by identity is any order
SetOrders(ml, el) == Perms(Range(ml) \ Range(el))

\* lines 155-175: the search and the build phase
PostList ==
    /\ pc = "start"
    /\ \E p \in PostInputs :
        /\ posts' = p
        /\ query' = ClampLimit(query)
        /\ backend' = Append(backend, ClampLimit(query))
        /\ IF p = <<>>
           THEN /\ replies' = Append(replies, <<"nothing_found", query.page>>)
                /\ pc' = "done"
                /\ UNCHANGED <<media_list, errors>>
           ELSE /\ media_list' = Collect(p, 1)
                /\ errors' = BuildErrors(p)
                /\ pc' = "loop"
                /\ UNCHANGED replies
    /\ UNCHANGED <<error_list, idx, batch, sendKind, pendingAtSend, sentLog,
                   groups, photos, removed, probed, badStatus, survivors,
                   anyFailure>>
    /\ UNCHANGED <<cmdVars, textVars, trVars>>

\* lines 179-186: send_media_group accepted
SendMediaGroupOk ==
    /\ pc = "loop"
    /\ Len(media_list) > 1
    /\ batch' = CurrentBatch(media_list)
    /\ sendKind' = "group"
    /\ pendingAtSend' = Len(media_list)
    /\ sentLog' = sentLog \o CurrentBatch(media_list)
    /\ groups' = Append(groups, Len(CurrentBatch(media_list)))
    /\ media_list' = AfterDelete(media_list)
    /\ UNCHANGED <<pc, query, replies, backend, posts, errors, error_list,
                   idx, photos, removed, probed, badStatus,
                   anyFailure>>
    /\ survivors' = {}
    /\ UNCHANGED <<cmdVars, textVars, trVars>>

\* lines 179-188: send_media_group raises BadRequest; the probe round starts
SendMediaGroupBadRequest ==
    /\ pc = "loop"
    /\ Len(media_list) > 1
    /\ Len(media_list) <= MaxRetryLen
    /\ batch' = CurrentBatch(media_list)
    /\ sendKind' = "group"
    /\ pendingAtSend' = Len(media_list)
    /\ error_list' = <<>>
    /\ idx' = 1
    /\ probed' = {}
    /\ anyFailure' = TRUE
    /\ pc' = "probe"
    /\ UNCHANGED <<query, replies, backend, posts, media_list, errors,
                   sentLog, groups, photos, removed, badStatus>>
    /\ survivors' = {}
    /\ UNCHANGED <<cmdVars, textVars, trVars>>

\* lines 179-187: send_media_group raises an error that is no BadRequest
\* (TimedOut, NetworkError, ...); no except clause catches it
SendMediaGroupError ==
    /\ pc = "loop"
    /\ Len(media_list) > 1
    /\ batch' = CurrentBatch(media_list)
    /\ sendKind' = "group"
    /\ pendingAtSend' = Len(media_list)
    /\ anyFailure' = TRUE
    /\ pc' = "raised"
    /\ UNCHANGED <<query, replies, backend, posts, media_list, errors,
                   error_list, idx, sentLog, groups, photos, removed, probed,
                   badStatus>>
    /\ survivors' = {}
    /\ UNCHANGED <<cmdVars, textVars, trVars>>

\* lines 189-194: one HEAD probe that answers
Probe ==
    /\ pc = "probe"
    /\ idx <= Len(CurrentBatch(media_list))
    /\ \E status \in StatusCodes :
        LET media == CurrentBatch(media_list)[idx] IN
        /\ probed' = probed \cup {media}
        /\ badStatus' = IF status \in 200..399 THEN badStatus
                        ELSE badStatus \cup {media}
        /\ IF ProbeFailed(status)
           THEN /\ errors' = errors + 1
                /\ error_list' = Append(error_list, media)
           ELSE UNCHANGED <<errors, error_list>>
    /\ idx' = idx + 1
    /\ UNCHANGED <<pc, query, replies, backend, posts, media_list, batch,
                   sendKind, pendingAtSend, sentLog, groups, photos, removed,
                   survivors, anyFailure>>
    /\ UNCHANGED <<cmdVars, textVars, trVars>>

\* line 191: requests.head raises (ConnectionError, Timeout, ...); raised
\* inside the except clause, nothing catches it
ProbeRaises ==
    /\ pc = "probe"
    /\ idx <= Len(CurrentBatch(media_list))
    /\ probed' = probed \cup {CurrentBatch(media_list)[idx]}
    /\ pc' = "raised"
    /\ UNCHANGED <<query, replies, backend, posts, media_list, errors,
                   error_list, idx, batch, sendKind, pendingAtSend, sentLog,
                   groups, photos, removed, badStatus, survivors, anyFailure>>
    /\ UNCHANGED <<cmdVars, textVars, trVars>>

\* line 195: the probe loop is over, the failed items leave media_list
RemoveErrors ==
    /\ pc = "probe"
    /\ idx > Len(CurrentBatch(media_list))
    /\ \E ml \in SetOrders(media_list, error_list) : media_list' = ml
    /\ removed' = removed \cup Range(error_list)
    /\ survivors' = Range(CurrentBatch(media_list)) \ Range(error_list)
    /\ sendKind' = "none"
    /\ pc' = "loop"
    /\ UNCHANGED <<query, replies, backend, posts, errors, error_list, idx,
                   batch, pendingAtSend, sentLog, groups, photos, probed,
                   badStatus, anyFailure>>
    /\ UNCHANGED <<cmdVars, textVars, trVars>>

\* lines 197-204: send_photo accepted
SendPhotoOk ==
    /\ pc = "loop"
    /\ Len(media_list) = 1
    /\ batch' = <<media_list[1]>>
    /\ sendKind' = "photo"
    /\ pendingAtSend' = Len(media_list)
    /\ photos' = photos + 1
    /\ sentLog' = Append(sentLog, media_list[1])
    /\ media_list' = Tail(media_list)
    /\ UNCHANGED <<pc, query, replies, backend, posts, errors, error_list,
                   idx, groups, removed, probed, badStatus,
                   anyFailure>>
    /\ survivors' = {}
    /\ UNCHANGED <<cmdVars, textVars, trVars>>

\* lines 197-204: send_photo raises BadRequest
SendPhotoBadRequest ==
    /\ pc = "loop"
    /\ Len(media_list) = 1
    /\ batch' = <<media_list[1]>>
    /\ sendKind' = "photo"
    /\ pendingAtSend' = Len(media_list)
    /\ photos' = photos + 1
    /\ errors' = errors + 1
    /\ removed' = removed \cup {media_list[1]}
    /\ media_list' = Tail(media_list)
    /\ anyFailure' = TRUE
    /\ UNCHANGED <<pc, query, replies, backend, posts, error_list, idx,
                   sentLog, groups, probed, badStatus>>
    /\ survivors' = {}
    /\ UNCHANGED <<cmdVars, textVars, trVars>>

\* lines 197-202: send_photo raises an error that is no BadRequest
SendPhotoError ==
    /\ pc = "loop"
    /\ Len(media_list) = 1
    /\ batch' = <<media_list[1]>>
    /\ sendKind' = "photo"
    /\ pendingAtSend' = Len(media_list)
    /\ photos' = photos + 1
    /\ anyFailure' = TRUE
    /\ pc' = "raised"
    /\ UNCHANGED <<query, replies, backend, posts, media_list, errors,
                   error_list, idx, sentLog, groups, removed, probed,
                   badStatus>>
    /\ survivors' = {}
    /\ UNCHANGED <<cmdVars, textVars, trVars>>

\* lines 177, 205-206: media_list is empty, the loop ends
Finish ==
    /\ pc = "loop"
    /\ media_list = <<>>
    /\ replies' = IF errors # 0
                  THEN Append(replies, <<"unavailable", errors>>)
                  ELSE replies
    /\ pc' = "done"
    /\ UNCHANGED <<query, backend, loopVars>>
    /\ UNCHANGED <<cmdVars, textVars, trVars>>

\* The state on entry of post_list_send_media_group, called by latest
\* with no arguments (lines 89-103).
DefaultQuery == [limit |-> 5, page |-> 0, tags |-> <<>>]

LoopIdle ==
    /\ posts = <<>>
    /\ media_list = <<>>
    /\ errors = 0
    /\ error_list = <<>>
    /\ idx = 1
    /\ batch = <<>>
    /\ sendKind = "none"
    /\ pendingAtSend = 0
    /\ sentLog = <<>>
    /\ groups = <<>>
    /\ photos = 0
    /\ removed = {}
    /\ probed = {}
    /\ badStatus = {}
    /\ survivors = {}
    /\ anyFailure = FALSE

NoExtract == [name |-> "", text |-> <<>>, type_ |-> "str"]

NoResult == [raised |-> "", text |-> <<>>,
             out |-> [kind |-> "none", num |-> 0, str |-> <<>>]]

NoMessage == [kind |-> "none", reply_text |-> <<>>, secondary_text |-> <<>>,
              lang_from |-> "", lang_to |-> ""]

OthersIdle ==
    /\ exIn = NoExtract
    /\ exOut = NoResult
    /\ trIn = NoMessage
    /\ trCalls = <<>>

Init ==
    /\ pc = "start"
    /\ cmd = "latest"
    /\ args = <<>>
    /\ query = DefaultQuery
    /\ replies = <<>>
    /\ backend = <<>>
    /\ LoopIdle
    /\ OthersIdle

Next ==
    \/ PostList
    \/ SendMediaGroupOk
    \/ SendMediaGroupBadRequest
    \/ SendMediaGroupError
    \/ Probe
    \/ ProbeRaises
    \/ RemoveErrors
    \/ SendPhotoOk
    \/ SendPhotoBadRequest
    \/ SendPhotoError
    \/ Finish

Spec == Init /\ [][Next]_vars

\* The handler runs in its own thread until it returns or raises: a step
\* that can be taken is taken.  Nothing is assumed of the platform's answers.
FairSpec == Spec /\ WF_vars(Next)


\* ------------------------------------------------------ option extraction
\* re.IGNORECASE: the lower-case form of a lexeme
Lower(c) == IF c = "PAGE" THEN "page" ELSE IF c = "LIMIT" THEN "limit" ELSE c

\* [ =:]
IsSep(c) == c \in {" ", "=", ":"}

\* \d
IsDigit(c) == c \in {"0", "1", "2"}

\* \w
IsWord(c) == IsDigit(c) \/ c \in {"a", "b", "_", "page", "PAGE", "limit", "LIMIT"}

\* line 132: '\d' if type_ == int else '\w'
IsOfType(type_, c) == IF type_ = "int" THEN IsDigit(c) ELSE IsWord(c)

\* number of lexemes [ =:]+ takes from position i
RECURSIVE SepRun(_, _)
SepRun(text, i) ==
    IF i <= Len(text) /\ IsSep(text[i]) THEN 1 + SepRun(text, i + 1) ELSE 0

\* number of lexemes {type}+ takes from position i
RECURSIVE TypeRun(_, _, _)
TypeRun(type_, text, i) ==
    IF i <= Len(text) /\ IsOfType(type_, text[i])
    THEN 1 + TypeRun(type_, text, i + 1)
    ELSE 0

\* line 136: length of the match of '{name}[ =:]+{type}+' at position i, 0
\* when the pattern does not match there
MatchLen(name, type_, text, i) ==
    IF i <= Len(text) /\ Lower(text[i]) = Lower(name)
    THEN LET s == SepRun(text, i + 1)
             v == TypeRun(type_, text, i + 1 + s)
         IN  IF s >= 1 /\ v >= 1 THEN 1 + s + v ELSE 0
    ELSE 0

\* line 137: page_pattern.findall(text), scanning from position i
RECURSIVE FindAll(_, _, _, _)
FindAll(name, type_, text, i) ==
    IF i > Len(text) THEN <<>>
    ELSE LET n == MatchLen(name, type_, text, i) IN
         IF n > 0
         THEN <<SubSeq(text, i, i + n - 1)>> \o FindAll(name, type_, text, i + n)
         ELSE FindAll(name, type_, text, i + 1)

\* line 139: page_pattern.sub('', text), scanning from position i
RECURSIVE SubAll(_, _, _, _)
SubAll(name, type_, text, i) ==
    IF i > Len(text) THEN <<>>
    ELSE LET n == MatchLen(name, type_, text, i) IN
         IF n > 0
         THEN SubAll(name, type_, text, i + n)
         ELSE <<text[i]>> \o SubAll(name, type_, text, i + 1)

\* lines 140, 142: re.findall('\d+', m): the first run of digits of m from
\* position i, <<>> when m has no digit
RECURSIVE FirstDigits(_, _)
FirstDigits(m, i) ==
    IF i > Len(m) THEN <<>>
    ELSE IF IsDigit(m[i])
         THEN LET RECURSIVE Run(_)
                  Run(j) == IF j <= Len(m) /\ IsDigit(m[j])
                            THEN <<m[j]>> \o Run(j + 1) ELSE <<>>
              IN  Run(i)
         ELSE FirstDigits(m, i + 1)

DigitValue(c) == IF c = "0" THEN 0 ELSE IF c = "1" THEN 1 ELSE 2

\* line 142: int(...)
RECURSIVE ToInt(_)
ToInt(ds) ==
    IF ds = <<>> THEN 0
    ELSE 10 * ToInt(SubSeq(ds, 1, Len(ds) - 1)) + DigitValue(ds[Len(ds)])

None == [kind |-> "none", num |-> 0, str |-> <<>>]

\* lines 118-144: the pair (text, out) returned, or the IndexError raised by
\* re.findall('\d+', match[0])[0] when the match holds no digit
extract_option_from_string(name, text, type_) ==
    LET match == FindAll(name, type_, text, 1) IN
    IF match = <<>>
    THEN [raised |-> "", text |-> text, out |-> None]
    ELSE LET digits == FirstDigits(match[1], 1) IN
         IF digits = <<>>
         THEN [raised |-> "IndexError", text |-> <<>>, out |-> None]
         ELSE [raised |-> "",
               text   |-> SubAll(name, type_, text, 1),
               out    |-> IF type_ = "int"
                          THEN [kind |-> "int", num |-> ToInt(digits), str |-> <<>>]
                          ELSE [kind |-> "str", num |-> 0, str |-> digits]]

\* `if page:` and `if limit:` (lines 64, 66, 98, 100)
Truthy(out) == out.kind = "int" /\ out.num # 0

\* -------------------------------------------------------------- filter_terms
\* line 112: non_alphanum.sub('', term) with non_alphanum = '[^\w_ ]+'
RECURSIVE StripNonAlphanum(_)
StripNonAlphanum(term) ==
    IF term = <<>> THEN <<>>
    ELSE IF IsWord(Head(term)) \/ Head(term) = " "
         THEN <<Head(term)>> \o StripNonAlphanum(Tail(term))
         ELSE StripNonAlphanum(Tail(term))

\* line 113: term.strip()
RECURSIVE LStrip(_)
LStrip(term) ==
    IF term # <<>> /\ Head(term) = " " THEN LStrip(Tail(term)) ELSE term

RECURSIVE RStrip(_)
RStrip(term) ==
    IF term # <<>> /\ term[Len(term)] = " "
    THEN RStrip(SubSeq(term, 1, Len(term) - 1))
    ELSE term

Strip(term) == RStrip(LStrip(term))

\* line 114: term.replace(' ', '_')
Underscore(term) == [i \in 1..Len(term) |-> IF term[i] = " " THEN "_" ELSE term[i]]

\* line 116: list(OrderedDict.fromkeys(terms))
RECURSIVE Dedupe(_, _)
Dedupe(terms, seen) ==
    IF terms = <<>> THEN <<>>
    ELSE IF Head(terms) \in seen THEN Dedupe(Tail(terms), seen)
         ELSE <<Head(terms)>> \o Dedupe(Tail(terms), seen \cup {Head(terms)})

\* lines 111-116
filter_terms(terms) ==
    LET normal == [i \in 1..Len(terms) |->
                      Underscore(Strip(StripNonAlphanum(terms[i])))]
        kept   == SelectSeq(normal, LAMBDA t : t # <<>>)
    IN  Dedupe(kept, {})

\* line 69: text.split(',')
RECURSIVE Split(_, _)
Split(text, sep) ==
    IF \A i \in 1..Len(text) : text[i] # sep THEN <<text>>
    ELSE LET k == CHOOSE i \in 1..Len(text) :
                      text[i] = sep /\ \A j \in 1..(i - 1) : text[j] # sep
         IN  <<SubSeq(text, 1, k - 1)>> \o Split(SubSeq(text, k + 1, Len(text)), sep)

\* lines 56, 94: ' '.join(args)
RECURSIVE Join(_)
Join(words) ==
    IF words = <<>> THEN <<>>
    ELSE IF Len(words) = 1 THEN words[1]
    ELSE words[1] \o <<" ">> \o Join(Tail(words))

\* ------------------------------------------------------- danbooru commands
\* bounds of the argument lists of a command
MaxArgs == 2
MaxWordLen == 2

\* The lexemes of command arguments (an argument holds no white space).
ArgAlphabet == {"a", ",", "!", "page", "=", "1"}

WordsUpTo(n) == UNION {[1..k -> ArgAlphabet] : k \in 1..n}

ArgInputs == UNION {[1..k -> WordsUpTo(MaxWordLen)] : k \in 0..MaxArgs}

\* lines 61-67, 95-101: the page and limit options, taken out of the text
WithOptions(q, text) ==
    LET p == extract_option_from_string("page", text, "int")
        l == extract_option_from_string("limit", p.text, "int")
        q1 == IF Truthy(p.out) THEN [q EXCEPT !.page = p.out.num] ELSE q
        q2 == IF Truthy(l.out) THEN [q1 EXCEPT !.limit = l.out.num] ELSE q1
    IN  [query |-> q2, text |-> l.text]

\* lines 41-76: search_danbooru up to its call of post_list_send_media_group
SearchDanbooru ==
    /\ pc = "idle"
    /\ cmd' = "danbooru_tags"
    /\ \E a \in ArgInputs :
        LET text == Join(a) IN
        /\ args' = a
        /\ IF text = <<>>
           THEN /\ replies' = Append(replies, <<"no_tag_given", 0>>)
                /\ pc' = "done"
                /\ UNCHANGED query
           ELSE LET o     == WithOptions(DefaultQuery, text)
                    terms == filter_terms(Split(o.text, ","))
                IN  /\ query' = [o.query EXCEPT !.tags = Take(terms, 2)]
                    /\ replies' = IF Len(terms) > 2
                                  THEN Append(replies, <<"only_two_tags", 0>>)
                                  ELSE replies
                    /\ pc' = "start"
    /\ UNCHANGED <<backend, loopVars, textVars, trVars>>

\* lines 78-103: latest up to its call of post_list_send_media_group
Latest ==
    /\ pc = "idle"
    /\ cmd' = "latest"
    /\ \E a \in ArgInputs :
        /\ args' = a
        /\ query' = WithOptions(DefaultQuery, Join(a)).query
    /\ pc' = "start"
    /\ UNCHANGED <<replies, backend, loopVars, textVars, trVars>>

\* A command message arrives; the handlers run up to the search.
InitCmd ==
    /\ pc = "idle"
    /\ cmd = "none"
    /\ args = <<>>
    /\ query = DefaultQuery
    /\ replies = <<>>
    /\ backend = <<>>
    /\ LoopIdle
    /\ OthersIdle

NextCmd ==
    \/ SearchDanbooru
    \/ Latest
    \/ PostList

SpecCmd == InitCmd /\ [][NextCmd]_vars

\* ---------------------------------------- extract_option_from_string, alone
MaxTextLen == 6

TextAlphabet == {"page", "PAGE", "=", " ", "1", "2"}

TextInputs == UNION {[1..k -> TextAlphabet] : k \in 0..MaxTextLen}

InitExtract ==
    /\ pc = "extract"
    /\ cmd = "none"
    /\ args = <<>>
    /\ query = DefaultQuery
    /\ replies = <<>>
    /\ backend = <<>>
    /\ LoopIdle
    /\ exIn \in [name : {"page"}, text : TextInputs, type_ : {"int", "str"}]
    /\ exOut = NoResult
    /\ trIn = NoMessage
    /\ trCalls = <<>>

ExtractOption ==
    /\ pc = "extract"
    /\ exOut' = extract_option_from_string(exIn.name, exIn.text, exIn.type_)
    /\ pc' = "extracted"
    /\ UNCHANGED <<query, replies, backend, loopVars, cmdVars, exIn, trVars>>

NextExtract == ExtractOption

SpecExtract == InitExtract /\ [][NextExtract]_vars

\* ---------------------------------------------------------------- translate
\* A message text is a sequence of tokens (words and option flags); the
\* string "" is None.
MaxTokens == 4

TrTokens == {"hi", "-lf", "-lt", "fr", "xx"}

TrTexts == UNION {[1..k -> TrTokens] : k \in 0..MaxTokens}

\* googletrans.constants.LANGUAGES, three of its codes
LANGUAGES == {"en", "fr", "de"}

IsFlag(tok) == tok \in {"-lf", "-lt"}

\* position of the first '-name' followed by a value, 0 if none
RECURSIVE OptionAt(_, _, _)
OptionAt(name, text, i) ==
    IF i >= Len(text) THEN 0
    ELSE IF text[i] = "-" \o name /\ ~IsFlag(text[i + 1]) THEN i
    ELSE OptionAt(name, text, i + 1)

\* xenian.bot.utils.get_option_from_string: the pair (value, text without
\* the option); value None and the text unchanged when the option is absent
get_option_from_string(name, text) ==
    LET at == OptionAt(name, text, 1) IN
    IF at = 0 THEN <<"", text>>
    ELSE <<text[at + 1], SubSeq(text, 1, at - 1) \o SubSeq(text, at + 2, Len(text))>>

\* Direction without the default target of the source-only case
DirectionNoDefaultTarget(lang_from, lang_to) ==
    IF lang_from # "" /\ lang_to = "" THEN lang_from
    ELSE IF lang_from # "" /\ lang_to # "" THEN lang_from \o "-" \o lang_to
    ELSE IF lang_from = "" /\ lang_to # "" THEN lang_to
    ELSE "en"

\* lines 102-108: the direction string translate_text hands to the backend
Direction(lang_from, lang_to) ==
    IF lang_from # "" /\ lang_to = "" THEN lang_from \o "-en"
    ELSE IF lang_from # "" /\ lang_to # "" THEN lang_from \o "-" \o lang_to
    ELSE IF lang_from = "" /\ lang_to # "" THEN lang_to
    ELSE "en"

\* lines 91-110: the backend call translate_text makes
translate_text(text, lang_from, lang_to) ==
    [text |-> text, lang_from |-> lang_from, lang_to |-> lang_to,
     direction |-> Direction(lang_from, lang_to)]

\* line 62: translate_from not in LANGUAGES
FromUnsupported(translate_from) == translate_from \notin LANGUAGES

\* ToUnsupported with the membership test left out
ToUnsupportedNever(translate_to) == FALSE

\* line 69: translate_to not in LANGUAGES
ToUnsupported(translate_to) == translate_to \notin LANGUAGES

\* lines 46-89: the translate handler; the replies it sends and the backend
\* calls it makes
translate(reply_text, split_rest) ==
    LET primary0 == reply_text
        lf == get_option_from_string("lf", split_rest)
        sec1 == IF lf[1] # "" THEN lf[2] ELSE split_rest
        lt == get_option_from_string("lt", sec1)
        sec2 == IF lt[1] # "" THEN lt[2] ELSE sec1
        translate_to == IF lt[1] # "" THEN lt[1] ELSE "en"
    IN  IF split_rest # <<>>
        THEN IF lf[1] # "" /\ FromUnsupported(lf[1])
             THEN [replies |-> <<<<"not_available", lf[1]>>>>, calls |-> <<>>]
             ELSE IF lt[1] # "" /\ ToUnsupported(lt[1])
             THEN [replies |-> <<<<"not_available", lt[1]>>>>, calls |-> <<>>]
             ELSE LET primary == IF primary0 = <<>> THEN sec2 ELSE primary0
                      call == translate_text(primary, lf[1], translate_to)
                  IN  IF primary = <<>> /\ sec2 = <<>>
                      THEN [replies |-> <<<<"missing_input", "">>>>, calls |-> <<>>]
                      ELSE [replies |-> <<<<"translation", call.direction>>>>,
                            calls |-> <<call>>]
        ELSE IF primary0 = <<>>
             THEN [replies |-> <<<<"missing_input", "">>>>, calls |-> <<>>]
             ELSE LET call == translate_text(primary0, "", "")
                  IN  [replies |-> <<<<"translation", call.direction>>>>,
                       calls |-> <<call>>]

\* the messages the translate command handles: a reply to a message with
\* text or no reply, and the text after the command word
TrMessages ==
    [kind : {"command"}, reply_text : {<<>>, <<"hola">>},
     secondary_text : TrTexts, lang_from : {""}, lang_to : {""}]

\* the arguments of a translate_text call made on its own
TrDirectCalls ==
    [kind : {"direct"}, reply_text : {<<"hi">>}, secondary_text : {<<>>},
     lang_from : {"", "fr", "xx"}, lang_to : {"", "de", "xx"}]

InitTranslate ==
    /\ pc = "message"
    /\ cmd = "none"
    /\ args = <<>>
    /\ query = DefaultQuery
    /\ replies = <<>>
    /\ backend = <<>>
    /\ LoopIdle
    /\ exIn = NoExtract
    /\ exOut = NoResult
    /\ trIn \in TrMessages \cup TrDirectCalls
    /\ trCalls = <<>>

\* the translate command handles the message
Translate ==
    /\ pc = "message"
    /\ trIn.kind = "command"
    /\ LET r == translate(trIn.reply_text, trIn.secondary_text) IN
        /\ replies' = r.replies
        /\ trCalls' = r.calls
    /\ pc' = "done"
    /\ UNCHANGED <<query, backend, loopVars, cmdVars, textVars, trIn>>

\* translate_text called on its own
CallTranslateText ==
    /\ pc = "message"
    /\ trIn.kind = "direct"
    /\ trCalls' = <<translate_text(trIn.reply_text, trIn.lang_from, trIn.lang_to)>>
    /\ pc' = "done"
    /\ UNCHANGED <<query, replies, backend, loopVars, cmdVars, textVars, trIn>>

NextTranslate ==
    \/ Translate
    \/ CallTranslateText

SpecTranslate == InitTranslate /\ [][NextTranslate]_vars

\* ===================================================================== claims
Dropped == {i \in 1..Len(posts) : ~HasHttpUrl(posts[i])}

NoDuplicates(s) == Cardinality(Range(s)) = Len(s)

\* Each search result is in exactly one of: dropped in the build phase,
\* pending, sent, removed as failed.
Partitioned ==
    /\ NoDuplicates(media_list)
    /\ NoDuplicates(sentLog)
    /\ Dropped \cup Range(media_list) \cup Range(sentLog) \cup removed
         = 1..Len(posts)
    /\ Dropped \cap Range(media_list) = {}
    /\ Dropped \cap Range(sentLog) = {}
    /\ Dropped \cap removed = {}
    /\ Range(media_list) \cap Range(sentLog) = {}
    /\ Range(media_list) \cap removed = {}
    /\ Range(sentLog) \cap removed = {}

Counted ==
    /\ Partitioned
    /\ errors = Cardinality(Dropped) + Cardinality(removed)
    /\ pc = "done" =>
         /\ errors + Len(sentLog) = Len(posts)
         /\ errors # 0 => replies = <<<<"unavailable", errors>>>>

\* C1: no error of a multi-item send, a single-item send or a HEAD probe
\* escapes the batch loop: the invocation never ends by raising to the
\* framework.
C1_NoErrorEscapes == pc # "raised"

\* C2: the batch loop always terminates: whatever the platform and the
\* probes answer, the invocation eventually leaves the loop.
C2_LoopTerminates == <>(pc \in {"done", "raised"})

\* C3: items are sent in the order collected: the successful sends, taken
\* together, and the items of every send attempt are in collection order.
C3_CollectionOrder == IsAscending(sentLog) /\ IsAscending(batch)

\* C4 as stated: in every reachable state of the batch loop each result is
\* in exactly one of the four classes, the counter is the number dropped
\* plus the number removed as failed, and at the end counter + sent = results.
C4_CountInEveryState ==
    pc \in {"loop", "probe", "done"} => Counted

\* C4 as amended: the same at every iteration boundary of the batch loop
\* (control at the loop test) and at completion; inside a probe round the
\* counter runs ahead of the removals.
C4_CountAtBoundaries ==
    pc \in {"loop", "done"} => Counted

C4_Witness ==
    /\ pc = "done"
    /\ Dropped # {}
    /\ removed # {}
    /\ sentLog # <<>>
    /\ badStatus # {}
    /\ replies = <<<<"unavailable", errors>>>>

\* What C9 asks of one step: a probe step probes an item of the batch; the
\* step that leaves the probe round has probed the whole batch, leaves no
\* item with a bad status pending and removes nothing else; a send attempt
\* carries no item with a bad status and all survivors of the latest round.
C9_Step ==
    /\ (pc = "probe" /\ probed' # probed) => probed' \subseteq Range(batch)
    /\ (pc = "probe" /\ pc' # "probe") =>
         /\ probed' = Range(batch)
         /\ Range(media_list') \cap badStatus' = {}
         /\ Range(media_list) \ Range(media_list')
              = Range(batch) \cap badStatus'
    /\ (pc = "loop" /\ media_list # <<>>) =>
         /\ Range(batch') \cap badStatus = {}
         /\ survivors \subseteq Range(batch')

\* C9: after a rejected multi-item send exactly the items of the batch are
\* probed, nothing outside the batch is probed or removed, every item with a
\* status outside [200,399] leaves the pending list and is in no later send
\* attempt, and the survivors are retried together in the next attempt.
C9_ProbeExactlyTheBatch == [][C9_Step]_vars

Ceil10(n) == (n + 9) \div 10

\* C10: a multi-item send carries 2..10 items, a single-item send happens
\* only with exactly one item pending, and absent failures N items are
\* drained in ceil(N/10) sends taken in consecutive chunks of 10.
C10_Batching ==
    /\ sendKind = "group" =>
         /\ Len(batch) >= 2
         /\ Len(batch) <= 10
         /\ pendingAtSend >= 2
    /\ sendKind = "photo" => Len(batch) = 1 /\ pendingAtSend = 1
    /\ (~anyFailure /\ pc \in {"loop", "done"}) =>
         LET all == Collect(posts, 1) IN
         /\ sentLog = SubSeq(all, 1, Len(sentLog))
         /\ \A k \in 1..Len(groups) :
              groups[k] = Min(10, Len(all) - 10 * (k - 1))
         /\ pc = "done" => Len(groups) + photos = Ceil10(Len(all))

C10_Witness ==
    /\ pc = "done"
    /\ ~anyFailure
    /\ Len(Collect(posts, 1)) = 23
    /\ groups = <<10, 10, 3>>
    /\ photos = 0

\* ---- reference reading of the option pattern, for C5
\* position of the first occurrence of name + separator(s) + value, 0 if none
RECURSIVE FirstOccurrence(_, _, _, _)
FirstOccurrence(name, type_, text, i) ==
    IF i > Len(text) THEN 0
    ELSE IF MatchLen(name, type_, text, i) > 0 THEN i
    ELSE FirstOccurrence(name, type_, text, i + 1)

\* C5: a call consumes at most one occurrence of the option: with the
\* pattern present the value is that of the first occurrence and the residual
\* text is the input with that one span removed; with the pattern absent the
\* text comes back unchanged with value None.
C5_ConsumesOneOccurrence ==
    pc = "extracted" =>
        LET at == FirstOccurrence(exIn.name, exIn.type_, exIn.text, 1)
            n  == MatchLen(exIn.name, exIn.type_, exIn.text, at)
            s  == SepRun(exIn.text, at + 1)
            value == SubSeq(exIn.text, at + 1 + s, at + n - 1)
        IN  IF at = 0
            THEN exOut = [raised |-> "", text |-> exIn.text, out |-> None]
            ELSE /\ exOut.raised = ""
                 /\ exOut.text = SubSeq(exIn.text, 1, at - 1)
                                   \o SubSeq(exIn.text, at + n, Len(exIn.text))
                 /\ exOut.out =
                      IF exIn.type_ = "int"
                      THEN [kind |-> "int", num |-> ToInt(value), str |-> <<>>]
                      ELSE [kind |-> "str", num |-> 0, str |-> value]

\* C6: a tag search with no usable tag (none left after the options are
\* taken out and the terms filtered) answers 'no tag given' and calls
\* neither the image board nor a send operation.
C6_NoTagsShortCircuit ==
    (cmd = "danbooru_tags" /\ query.tags = <<>>) =>
        /\ backend = <<>>
        /\ sendKind = "none"
        /\ pc = "done" => replies = <<<<"no_tag_given", 0>>>>

\* the code following the first '-name' flag of the trailing text, "" if none
RECURSIVE CodeAfter(_, _, _)
CodeAfter(flag, text, i) ==
    IF i >= Len(text) THEN ""
    ELSE IF text[i] = flag /\ ~IsFlag(text[i + 1]) THEN text[i + 1]
    ELSE CodeAfter(flag, text, i + 1)

Supported == {"en", "fr", "de"}

\* C7: a translate invocation whose trailing text carries a -lf or -lt code
\* outside the supported set replies naming an offending code, calls no
\* backend and sends no translation; the backend is only called with codes
\* that are absent or supported.
C7_UnsupportedAborts ==
    (pc = "done" /\ trIn.kind = "command") =>
        LET lf == CodeAfter("-lf", trIn.secondary_text, 1)
            lt == CodeAfter("-lt", trIn.secondary_text, 1)
            bad == {c \in {lf, lt} : c # "" /\ c \notin Supported}
        IN  /\ bad # {} =>
                /\ trCalls = <<>>
                /\ Len(replies) = 1
                /\ replies[1][1] = "not_available"
                /\ replies[1][2] \in bad
            /\ \A i \in 1..Len(trCalls) :
                /\ trCalls[i].lang_from \in Supported \cup {""}
                /\ trCalls[i].lang_to \in Supported \cup {""}

C7_Witness ==
    /\ pc = "done"
    /\ trIn.kind = "command"
    /\ CodeAfter("-lf", trIn.secondary_text, 1) = "fr"
    /\ CodeAfter("-lt", trIn.secondary_text, 1) = "xx"
    /\ replies = <<<<"not_available", "xx">>>>
    /\ trCalls = <<>>

\* C8: the direction handed to the backend is 'en' for absent/absent,
\* '{source}-en' for present/absent, '{source}-{target}' for present/present
\* and '{target}' for absent/present.
C8_DirectionTable ==
    \A i \in 1..Len(trCalls) :
        LET c == trCalls[i] IN
        c.direction =
            CASE c.lang_from = "" /\ c.lang_to = "" -> "en"
              [] c.lang_from # "" /\ c.lang_to = "" -> c.lang_from \o "-en"
              [] c.lang_from # "" /\ c.lang_to # "" ->
                     c.lang_from \o "-" \o c.lang_to
              [] c.lang_from = "" /\ c.lang_to # "" -> c.lang_to

C8_Witness ==
    /\ pc = "done"
    /\ trIn.kind = "direct"
    /\ Len(trCalls) = 1
    /\ trCalls[1].lang_from = "fr"
    /\ trCalls[1].lang_to = ""
    /\ trCalls[1].direction = "fr-en"

====
